---- MODULE Spec2Model ----
(***************************************************************************)
(* A model of scripts/unicode.py: the width classification merge, the      *)
(* multi-level lookup table builder (Bucket, make_buckets, Table,          *)
(* make_tables), the offset packer (Table.byte_array) and the lookup_width *)
(* function the script emits.                                              *)
(*                                                                         *)
(* Python lists are sequences (1-based here, so Python's l[i] is l[i+1]);  *)
(* Python's None is the empty sequence << >> and a present value v is      *)
(* <<v>>; an uncaught exception ends the run in pc = "failed" with its     *)
(* name in err.                                                            *)
(***************************************************************************)
EXTENDS Integers, Sequences, FiniteSets, TLC

VARIABLES
    eaw_map,       \* __main__: list[EffectiveWidth] from load_east_asian_widths
    zw_map,        \* __main__: list[bool] from load_zero_widths
    width_map,     \* __main__: the class array handed to make_tables
    table_cfgs,    \* the level configuration: <<low_bit, cap_bit, offset_type>> per level
    pc,            \* where the script is
    entry_groups,  \* make_tables: the groups the next Table is built from
    buckets,       \* Table.__init__: the raw buckets of the latest Table, before dedup
    tables,        \* make_tables: the Tables built so far
    total_size,    \* __main__: sum of len(table.byte_array())
    byte_arrays,   \* emit_module: the byte array written for each table
    err,           \* name of the exception that ended the run, "" if none
    looked         \* the latest lookup_width call: << >> or <<[c, is_cjk, width]>>

vars == <<eaw_map, zw_map, width_map, table_cfgs, pc, entry_groups, buckets,
          tables, total_size, byte_arrays, err, looked>>

---------------------------------------------------------------------------
(* class EffectiveWidth(enum.IntEnum) *)
ZERO == 0
NARROW == 1
WIDE == 2
AMBIGUOUS == 3
EffectiveWidth == {ZERO, NARROW, WIDE, AMBIGUOUS}

(* class OffsetType(enum.IntEnum): the value is the number of bits of an offset *)
U2 == 2
U4 == 4
U8 == 8
OffsetType == {U2, U4, U8}

(* x >> n and x & ((1 << n) - 1) on non-negative integers *)
Shr(x, n) == x \div (2 ^ n)
LowBits(x, n) == x % (2 ^ n)

RECURSIVE BitOr(_, _)
(* a | b on non-negative integers *)
BitOr(a, b) ==
    IF a = 0 THEN b
    ELSE IF b = 0 THEN a
    ELSE (IF a % 2 = 1 \/ b % 2 = 1 THEN 1 ELSE 0) + 2 * BitOr(a \div 2, b \div 2)

Range(s) == {s[i] : i \in 1..Len(s)}

---------------------------------------------------------------------------
(* class Bucket *)

(* Bucket.__init__ *)
NewBucket == [entry_set |-> {}, widths |-> << >>]

(* Bucket.append *)
BucketAppend(self, codepoint, width) ==
    [entry_set |-> self.entry_set \cup {<<codepoint, width>>},
     widths    |-> Append(self.widths, width)]

(* less == more[:len(less)] *)
IsPrefixOf(less, more) ==
    /\ Len(less) <= Len(more)
    /\ \A i \in 1..Len(less) : less[i] = more[i]

(* try_extend without the prefix rule: only equal width sequences merge *)
TryExtendEqual(self, other) ==
    IF self.widths # other.widths
    THEN [ok |-> FALSE, self |-> self]
    ELSE [ok |-> TRUE,
          self |-> [entry_set |-> self.entry_set \cup other.entry_set,
                    widths    |-> self.widths]]

(* Bucket.try_extend: ok is the returned bool, self is the bucket afterwards *)
TryExtend(self, other) ==
    LET sw == self.widths
        ow == other.widths
        less == IF Len(sw) <= Len(ow) THEN sw ELSE ow
        more == IF Len(sw) <= Len(ow) THEN ow ELSE sw
    IN  IF ~IsPrefixOf(less, more)
        THEN [ok |-> FALSE, self |-> self]
        ELSE [ok |-> TRUE,
              self |-> [entry_set |-> self.entry_set \cup other.entry_set,
                        widths    |-> more]]

(* Bucket.entries: the (codepoint, width) pairs sorted as Python sorts tuples.
   n bounds the codepoints in the set. *)
BucketEntries(self, n) ==
    SelectSeq([i \in 1..(4 * n) |-> <<(i - 1) \div 4, (i - 1) % 4>>],
              LAMBDA e : e \in self.entry_set)

(* Bucket.width without the comparison: the first width of a non-empty bucket *)
BucketWidthFirst(self) ==
    IF Len(self.widths) = 0 THEN << >> ELSE <<self.widths[1]>>

(* Bucket.width: <<w>> if every width is w, << >> (None) otherwise *)
BucketWidth(self) ==
    IF Len(self.widths) = 0 THEN << >>
    ELSE IF \E i \in 2..Len(self.widths) : self.widths[i] # self.widths[1]
         THEN << >>
         ELSE <<self.widths[1]>>

(* make_buckets keyed by the lowest num_bits bits, whatever low_bit is *)
MakeBucketsLowest(entries, low_bit, num_bits) ==
    LET m == 2 ^ num_bits
    IN  [k \in 1..m |->
            LET sel == SelectSeq(entries, LAMBDA e : e[1] % m = k - 1)
            IN  [entry_set |-> Range(sel),
                 widths    |-> [i \in 1..Len(sel) |-> sel[i][2]]]]

(* make_buckets: bucket k holds, in the order of entries, those whose bits
   low_bit .. low_bit + num_bits - 1 are k *)
MakeBuckets(entries, low_bit, num_bits) ==
    LET d == 2 ^ low_bit
        m == 2 ^ num_bits
    IN  [k \in 1..m |->
            LET sel == SelectSeq(entries, LAMBDA e : (e[1] \div d) % m = k - 1)
            IN  [entry_set |-> Range(sel),
                 widths    |-> [i \in 1..Len(sel) |-> sel[i][2]]]]

(* the inner loop scanning for the last bucket try_extend accepts, not the first *)
FindExistingLast(indexed, bucket, i) ==
    LET fits == {j \in i..(Len(indexed) - 1) : TryExtend(indexed[j + 1], bucket).ok}
    IN  IF fits = {} THEN Len(indexed)
        ELSE CHOOSE j \in fits : \A x \in fits : x <= j

RECURSIVE FindExisting(_, _, _)
(* the inner loop of index_buckets / Table.__init__: the first position i (from
   i upward, 0-based) whose bucket try_extend accepts, len(indexed) if none *)
FindExisting(indexed, bucket, i) ==
    IF i >= Len(indexed) THEN Len(indexed)
    ELSE IF TryExtend(indexed[i + 1], bucket).ok THEN i
    ELSE FindExisting(indexed, bucket, i + 1)

(* one iteration of the dedup loop over the raw buckets *)
IndexStep(st, bucket) ==
    LET i == FindExisting(st.indexed, bucket, 0)
    IN  IF i < Len(st.indexed)
        THEN [indices |-> Append(st.indices, i),
              indexed |-> [st.indexed EXCEPT ![i + 1] = TryExtend(@, bucket).self]]
        ELSE [indices |-> Append(st.indices, Len(st.indexed)),
              indexed |-> Append(st.indexed, bucket)]

RECURSIVE IndexRange(_, _, _, _)
(* the dedup loop over the raw buckets bs[lo] .. bs[hi] in order, from loop
   state st. The range is halved, and the first half's state computed before
   the second half is entered, only to keep the evaluation shallow: the loop
   appends one index per bucket, so the test always holds. *)
IndexRange(bs, st, lo, hi) ==
    IF lo > hi THEN st
    ELSE IF lo = hi THEN IndexStep(st, bs[lo])
    ELSE LET mid == (lo + hi) \div 2
             half == IndexRange(bs, st, lo, mid)
         IN  IF Len(half.indices) = Len(st.indices) + (mid - lo + 1)
             THEN IndexRange(bs, half, mid + 1, hi)
             ELSE half

(* the state of the dedup loop after its first n iterations *)
IndexUpTo(bs, n) == IndexRange(bs, [indices |-> << >>, indexed |-> << >>], 1, n)

(* index_buckets *)
IndexBuckets(bs) == IndexUpTo(bs, Len(bs))

(* Table.__init__, lines 228-230: the raw buckets of all entry groups, in order *)
RawBuckets(groups, low_bit, num_bits) ==
    LET per == [g \in 1..Len(groups) |-> MakeBuckets(groups[g], low_bit, num_bits)]
        m == 2 ^ num_bits
    IN  [j \in 1..(Len(groups) * m) |-> per[((j - 1) \div m) + 1][((j - 1) % m) + 1]]

(* the assertion with <= in place of < *)
OffsetsFitInclusive(indices, offset_type) ==
    \A n \in 1..Len(indices) : indices[n] <= 2 ^ offset_type

(* Table.__init__, lines 241-243: assert index < (1 << int(self.offset_type)) *)
OffsetsFit(indices, offset_type) ==
    \A n \in 1..Len(indices) : indices[n] < 2 ^ offset_type

(* Table.__init__: ok is FALSE when the assertion fails *)
NewTable(groups, low_bit, cap_bit, offset_type) ==
    LET num_bits == cap_bit - low_bit
        raw == RawBuckets(groups, low_bit, num_bits)
        st == IndexBuckets(raw)
    IN  [ok |-> OffsetsFit(st.indices, offset_type),
         raw |-> raw,
         table |-> [low_bit |-> low_bit, num_bits |-> num_bits,
                    offset_type |-> offset_type,
                    indices |-> st.indices, indexed |-> st.indexed]]

(* Table.indices_to_widths: ok is FALSE when int(None) raises TypeError *)
IndicesToWidths(table) ==
    LET ws == [n \in 1..Len(table.indices) |->
                  BucketWidth(table.indexed[table.indices[n] + 1])]
    IN  IF \E n \in 1..Len(ws) : ws[n] = << >>
        THEN [ok |-> FALSE, table |-> table]
        ELSE [ok |-> TRUE,
              table |-> [table EXCEPT !.indices = [n \in 1..Len(ws) |-> ws[n][1]],
                                      !.indexed = << >>]]

RECURSIVE PackByte(_, _, _, _)
(* the inner loop of byte_array: byte |= indices[i+j] << (j*offset_type),
   for j below indices_per_byte, from j upward *)
PackByte(indices, i, j, offset_type) ==
    IF j >= 8 \div offset_type THEN 0
    ELSE BitOr(indices[i + j + 1] * (2 ^ (j * offset_type)),
               PackByte(indices, i, j + 1, offset_type))

(* byte_array writing one byte per index, whatever offset_type is *)
ByteArrayUnpacked(table) == [ok |-> TRUE, bytes |-> table.indices]

(* Table.byte_array: ok is FALSE when indices[i+j] raises IndexError *)
ByteArray(table) ==
    LET indices_per_byte == 8 \div table.offset_type
        n == Len(table.indices)
    IN  IF n % indices_per_byte # 0
        THEN [ok |-> FALSE, bytes |-> << >>]
        ELSE [ok |-> TRUE,
              bytes |-> [b \in 1..(n \div indices_per_byte) |->
                           PackByte(table.indices, (b - 1) * indices_per_byte, 0,
                                    table.offset_type)]]

(* lookup_width's walk over the levels, on the tables' indices: the offset read
   at one level selects the sub-table of the next, the last value is the class *)
RECURSIVE DecodeFrom(_, _, _, _)
DecodeFrom(ts, c, lvl, offset) ==
    LET t == ts[lvl]
        v == t.indices[offset * (2 ^ t.num_bits)
                       + LowBits(Shr(c, t.low_bit), t.num_bits) + 1]
    IN  IF lvl = Len(ts) THEN v ELSE DecodeFrom(ts, c, lvl + 1, v)

Decode(ts, c) == DecodeFrom(ts, c, 1, 0)

(* lookup_width with the two outcomes of the is_cjk test exchanged *)
LookupWidthSwapped(tbs, cp, is_cjk) ==
    LET t1_offset == tbs[1][LowBits(Shr(cp, 13), 8) + 1]
        t2_offset == tbs[2][128 * t1_offset + LowBits(Shr(cp, 6), 7) + 1]
        packed_widths == tbs[3][16 * t2_offset + LowBits(Shr(cp, 2), 4) + 1]
        width == LowBits(Shr(packed_widths, 2 * LowBits(cp, 2)), 2)
    IN  IF width = 3
        THEN (IF is_cjk THEN 1 ELSE 2)
        ELSE width

(* fn lookup_width(c: char, is_cjk: bool) -> usize of the emitted module, on
   the byte arrays TABLES_0, TABLES_1, TABLES_2 *)
LookupWidth(tbs, cp, is_cjk) ==
    LET t1_offset == tbs[1][LowBits(Shr(cp, 13), 8) + 1]
        t2_offset == tbs[2][128 * t1_offset + LowBits(Shr(cp, 6), 7) + 1]
        packed_widths == tbs[3][16 * t2_offset + LowBits(Shr(cp, 2), 4) + 1]
        width == LowBits(Shr(packed_widths, 2 * LowBits(cp, 2)), 2)
    IN  IF width = 3
        THEN (IF is_cjk THEN 2 ELSE 1)
        ELSE width

(* MAX_CODEPOINT_BITS = math.ceil(math.log2(NUM_CODEPOINTS - 1)) with
   NUM_CODEPOINTS = 0x110000 *)
MAX_CODEPOINT_BITS == 21

TABLE_CFGS == <<<<13, MAX_CODEPOINT_BITS, U8>>, <<6, 13, U8>>, <<0, 6, U2>>>>

(* the codepoints __main__ overrides: U+00AD, and U+1160 .. U+11FF *)
SOFT_HYPHEN == 173
JAMO_FIRST == 4448
JAMO_LAST == 4607

(* the merge with the two overrides applied before the zero-width rule *)
MergeOverridesFirst(eaw, zw) ==
    LET n == IF Len(eaw) <= Len(zw) THEN Len(eaw) ELSE Len(zw)
        hyphen == [eaw EXCEPT ![SOFT_HYPHEN + 1] = NARROW]
    IN  [i \in 1..n |->
            IF zw[i] THEN ZERO
            ELSE IF i - 1 \in JAMO_FIRST..JAMO_LAST THEN ZERO
            ELSE hyphen[i]]

(* __main__, lines 402-411: zero-width codepoints become ZERO, then the soft
   hyphen is set to NARROW, then the Hangul Jamo block to ZERO *)
MergeWidths(eaw, zw) ==
    LET n == IF Len(eaw) <= Len(zw) THEN Len(eaw) ELSE Len(zw)
        merged == [i \in 1..n |-> IF zw[i] THEN ZERO ELSE eaw[i]]
        hyphen == [merged EXCEPT ![SOFT_HYPHEN + 1] = NARROW]
    IN  [i \in 1..n |-> IF i - 1 \in JAMO_FIRST..JAMO_LAST THEN ZERO ELSE hyphen[i]]

---------------------------------------------------------------------------
(* Bounds of the model *)
LoadedCodepoints == 4620   \* the maps of SpecMain cover codepoints 0 .. LoadedCodepoints-1

MaxLen == 5        \* longest class array of Spec
MaxRuns == 3       \* most runs of equal adjacent classes in a class array
WideLen == 9       \* length of the class arrays of SpecWide

(* enumerate(width_map) *)
Enumerate(wm) == [i \in 1..Len(wm) |-> <<i - 1, wm[i]>>]

(* the number of bits that covers the codepoints 0 .. n-1, at least 1 *)
CoverBits(n) == CHOOSE b \in 1..(n + 1) : 2 ^ b >= n /\ (b = 1 \/ 2 ^ (b - 1) < n)

RECURSIVE CfgsBelow(_)
(* the level configurations whose bit ranges run contiguously downward from
   cap_bit: << >> and every <<low, cap, type>> followed by a configuration
   below low *)
CfgsBelow(cap_bit) ==
    IF cap_bit = 0 THEN {<< >>}
    ELSE {<< >>} \cup
         UNION {{<<<<low_bit, cap_bit, t>>>> \o rest : rest \in CfgsBelow(low_bit)} :
                  low_bit \in 0..(cap_bit - 1), t \in OffsetType}

TableCfgs(cap_bit) == CfgsBelow(cap_bit) \ {<< >>}

(* the configurations of a single level below cap_bit *)
OneLevelCfgs(cap_bit) ==
    {<<<<low_bit, cap_bit, t>>>> : low_bit \in 0..(cap_bit - 1), t \in OffsetType}

RECURSIVE StepMaps(_, _, _)
(* the class arrays of length n made of at most r runs of equal classes, the
   first run of a class other than prev *)
StepMaps(n, r, prev) ==
    IF n = 0 THEN {<< >>}
    ELSE IF r = 0 THEN {}
    ELSE UNION {{[i \in 1..k |-> c] \o rest : rest \in StepMaps(n - k, r - 1, c)} :
                  k \in 1..n, c \in EffectiveWidth \ {prev}}

WidthMaps == UNION {StepMaps(n, MaxRuns, -1) : n \in 1..MaxLen}

WideMaps == StepMaps(WideLen, MaxRuns, -1)

---------------------------------------------------------------------------
(* The table builder on its own: make_tables on a class array and a level
   configuration that covers its codepoints, then the size report of
   __main__ and emit_module. *)
Init ==
    /\ width_map \in WidthMaps
    /\ table_cfgs \in TableCfgs(CoverBits(Len(width_map)))
    /\ eaw_map = << >>
    /\ zw_map = << >>
    /\ pc = "make_tables"
    /\ entry_groups = <<Enumerate(width_map)>>
    /\ buckets = << >>
    /\ tables = << >>
    /\ total_size = 0
    /\ byte_arrays = << >>
    /\ err = ""
    /\ looked = << >>

(* make_tables, one iteration of its loop: table = Table(entry_groups, ...) *)
MakeTable ==
    /\ pc = "make_tables"
    /\ LET lvl == Len(tables) + 1
           cfg == table_cfgs[lvl]
       IN  \E r \in {NewTable(entry_groups, cfg[1], cfg[2], cfg[3])} :  \* the one Table built
           /\ buckets' = r.raw
           /\ IF ~r.ok
              THEN /\ pc' = "failed"
                   /\ err' = "AssertionError"
                   /\ UNCHANGED <<tables, entry_groups>>
              ELSE /\ tables' = Append(tables, r.table)
                   /\ entry_groups' =
                        [g \in 1..Len(r.table.indexed) |->
                            BucketEntries(r.table.indexed[g], Len(width_map))]
                   /\ pc' = IF lvl = Len(table_cfgs) THEN "sizes" ELSE "make_tables"
                   /\ err' = err
    /\ UNCHANGED <<eaw_map, zw_map, width_map, table_cfgs, total_size, byte_arrays, looked>>

RECURSIVE SumLen(_, _)
SumLen(arrays, n) == IF n = 0 THEN 0 ELSE SumLen(arrays, n - 1) + Len(arrays[n].bytes)

(* __main__, lines 415-422: total_size += len(table.byte_array()) for each table *)
PrintSizes ==
    /\ pc = "sizes"
    /\ LET arrays == [i \in 1..Len(tables) |-> ByteArray(tables[i])]
       IN  IF \E i \in 1..Len(tables) : ~arrays[i].ok
           THEN /\ pc' = "failed"
                /\ err' = "IndexError"
                /\ total_size' = total_size
           ELSE /\ pc' = "emit"
                /\ err' = err
                /\ total_size' = SumLen(arrays, Len(arrays))
    /\ UNCHANGED <<eaw_map, zw_map, width_map, table_cfgs, entry_groups, buckets,
                   tables, byte_arrays, looked>>

(* emit_module, lines 375-389: the last table's indices become widths, then
   every table's byte array is written in turn *)
EmitModule ==
    /\ pc = "emit"
    /\ LET last == Len(tables)
           conv == IndicesToWidths(tables[last])
           arrays == [i \in 1..last |->
                        ByteArray(IF i = last THEN conv.table ELSE tables[i])]
       IN  IF ~conv.ok
           THEN /\ pc' = "failed"
                /\ err' = "TypeError"
                /\ tables' = tables
                /\ byte_arrays' = [i \in 1..(last - 1) |-> arrays[i].bytes]
           ELSE /\ pc' = "done"
                /\ err' = err
                /\ tables' = [tables EXCEPT ![last] = conv.table]
                /\ byte_arrays' = [i \in 1..last |-> arrays[i].bytes]
    /\ UNCHANGED <<eaw_map, zw_map, width_map, table_cfgs, entry_groups, buckets,
                   total_size, looked>>

Next == MakeTable \/ PrintSizes \/ EmitModule

Spec == Init /\ [][Next]_vars

(* The Table constructor on longer arrays: one level over a class array of
   WideLen codepoints, enough for a level to retain more buckets than a 2-bit
   offset can address. *)
InitWide ==
    /\ width_map \in WideMaps
    /\ table_cfgs \in OneLevelCfgs(CoverBits(Len(width_map)))
    /\ eaw_map = << >>
    /\ zw_map = << >>
    /\ pc = "make_tables"
    /\ entry_groups = <<Enumerate(width_map)>>
    /\ buckets = << >>
    /\ tables = << >>
    /\ total_size = 0
    /\ byte_arrays = << >>
    /\ err = ""
    /\ looked = << >>

SpecWide == InitWide /\ [][Next]_vars

(* The script itself, on maps that cover the first LoadedCodepoints
   codepoints: the merge of __main__, make_tables(TABLE_CFGS, ...), the size
   report, emit_module, and calls of the emitted lookup_width. *)

(* East Asian widths: in every stretch of 96 codepoints, class x on the first
   64, class y on the next 14 and class z on the rest; U+00AD falls on y *)
EawMaps ==
    {[i \in 1..LoadedCodepoints |->
         IF (i - 1) % 96 < 64 THEN xyz[1]
         ELSE IF (i - 1) % 96 < 78 THEN xyz[2]
         ELSE xyz[3]] :
        xyz \in {<<NARROW, AMBIGUOUS, WIDE>>, <<AMBIGUOUS, WIDE, NARROW>>}}

(* zero-width flags: set on some of the soft hyphen, the combining marks
   U+0300 .. U+036F and the codepoints around the start of the Jamo block *)
ZwMaps ==
    {[i \in 1..LoadedCodepoints |->
         \/ hy /\ i - 1 = SOFT_HYPHEN
         \/ cm /\ i - 1 \in 768..879
         \/ jm /\ i - 1 \in (JAMO_FIRST - 8)..(JAMO_FIRST + 40)] :
        hy \in BOOLEAN, cm \in BOOLEAN, jm \in BOOLEAN}

InitMain ==
    /\ eaw_map \in EawMaps
    /\ zw_map \in ZwMaps
    /\ width_map = << >>
    /\ table_cfgs = TABLE_CFGS
    /\ pc = "main"
    /\ entry_groups = << >>
    /\ buckets = << >>
    /\ tables = << >>
    /\ total_size = 0
    /\ byte_arrays = << >>
    /\ err = ""
    /\ looked = << >>

(* __main__, lines 399-413: width_map and the call of make_tables *)
Main ==
    /\ pc = "main"
    /\ width_map' = MergeWidths(eaw_map, zw_map)
    /\ entry_groups' = <<Enumerate(width_map')>>
    /\ pc' = "make_tables"
    /\ UNCHANGED <<eaw_map, zw_map, table_cfgs, buckets, tables, total_size,
                   byte_arrays, err, looked>>

(* the codepoints lookup_width is called on *)
Probes ==
    {0, SOFT_HYPHEN - 1, SOFT_HYPHEN, 767, 768, JAMO_FIRST - 1, JAMO_FIRST,
     JAMO_LAST, JAMO_LAST + 1, LoadedCodepoints - 1}

(* a call of lookup_width of the emitted module *)
Lookup ==
    /\ pc = "done"
    /\ \E c \in Probes, is_cjk \in BOOLEAN :
          looked' = <<[c |-> c, is_cjk |-> is_cjk,
                       width |-> LookupWidth(byte_arrays, c, is_cjk)]>>
    /\ UNCHANGED <<eaw_map, zw_map, width_map, table_cfgs, pc, entry_groups, buckets,
                   tables, total_size, byte_arrays, err>>

NextMain == Main \/ MakeTable \/ PrintSizes \/ EmitModule \/ Lookup

SpecMain == InitMain /\ [][NextMain]_vars

---------------------------------------------------------------------------
(* What the properties below speak of *)

(* one width sequence is a prefix of the other *)
PrefixCompatible(a, b) ==
    \/ Len(a.widths) <= Len(b.widths) /\ SubSeq(b.widths, 1, Len(a.widths)) = a.widths
    \/ Len(b.widths) <= Len(a.widths) /\ SubSeq(a.widths, 1, Len(b.widths)) = b.widths

NoTwoCompatible(indexed) ==
    \A i, j \in 1..Len(indexed) : i < j => ~PrefixCompatible(indexed[i], indexed[j])

(* make_tables has returned: every level has its Table *)
AllBuilt == Len(tables) = Len(table_cfgs)

(* the variable buckets holds the raw buckets of tables[Len(tables)], whose
   indices are still bucket positions *)
LatestKept == Len(tables) >= 1 /\ err # "AssertionError" /\ pc # "done"

(* the number of entry groups level lvl was built from *)
GroupsOf(lvl) == IF lvl = 1 THEN 1 ELSE Len(tables[lvl - 1].indexed)

(* the group the code reads at position n of a byte array *)
Unpack(bytes, n, w) == LowBits(Shr(bytes[(n \div (8 \div w)) + 1], w * (n % (8 \div w))), w)

HasRun(wm) == \E i \in 1..(Len(wm) - 1) : wm[i] = wm[i + 1]

Mixed(bucket) ==
    \E i, j \in 1..Len(bucket.widths) : bucket.widths[i] # bucket.widths[j]

RECURSIVE LevelBytes(_)
(* the bytes of levels 1..lvl when level i holds GroupsOf(i) * 2^num_bits offsets
   packed 8/offset_type to the byte *)
LevelBytes(lvl) ==
    IF lvl = 0 THEN 0
    ELSE LevelBytes(lvl - 1)
         + (GroupsOf(lvl) * (2 ^ tables[lvl].num_bits)) \div (8 \div tables[lvl].offset_type)

---------------------------------------------------------------------------
(* C1: exactness of the cascade. Once make_tables has built every level of a
   configuration that runs down to bit 0, converting the last table with
   indices_to_widths succeeds, and walking the levels as lookup_width does
   yields width_map[c] for every c of the domain. *)
C1_Exactness ==
    (AllBuilt /\ table_cfgs[Len(table_cfgs)][1] = 0) =>
        LET last == Len(tables)
            conv == IF pc = "done" THEN [ok |-> TRUE, table |-> tables[last]]
                    ELSE IndicesToWidths(tables[last])
        IN  /\ conv.ok
            /\ err # "TypeError"
            /\ \A c \in 0..(Len(width_map) - 1) :
                  Decode([tables EXCEPT ![last] = conv.table], c) = width_map[c + 1]

(* a finished run over at least two levels down to bit 0, where the first level
   merged two raw buckets and the array holds more than one class *)
C1_Witness ==
    /\ pc = "done"
    /\ Len(tables) >= 2
    /\ table_cfgs[Len(table_cfgs)][1] = 0
    /\ Len(tables[1].indexed) < Len(tables[1].indices)
    /\ Len(tables[1].indexed) >= 2
    /\ \E c \in 1..Len(width_map) : width_map[c] # width_map[1]

(* C2: offset-width overflow is fatal. If the dedup pass of the level being
   built yields an index >= 2^offset_type, the Table constructor fails its
   assertion: no Table is added and no byte array is ever written; every Table
   that exists has all its indices below 2^offset_type and every byte written
   is in 0..255. *)
C2_Step ==
    pc = "make_tables" =>
        LET cfg == table_cfgs[Len(tables) + 1]
            st == IndexBuckets(RawBuckets(entry_groups, cfg[1], cfg[2] - cfg[1]))
        IN  (\E n \in 1..Len(st.indices) : st.indices[n] >= 2 ^ cfg[3]) =>
                /\ pc' = "failed"
                /\ err' = "AssertionError"
                /\ tables' = tables
                /\ byte_arrays' = << >>

C2_Inv ==
    /\ \A i \in 1..Len(tables) : \A n \in 1..Len(tables[i].indices) :
          tables[i].indices[n] < 2 ^ tables[i].offset_type
    /\ \A i \in 1..Len(byte_arrays) : \A b \in 1..Len(byte_arrays[i]) :
          byte_arrays[i][b] \in 0..255
    /\ err = "AssertionError" => pc = "failed" /\ byte_arrays = << >> /\ total_size = 0

C2_OverflowFatal == [](C2_Inv) /\ [][C2_Step]_vars

(* the assertion has failed on a level whose dedup pass handed out the index
   2^offset_type *)
C2_Witness ==
    /\ err = "AssertionError"
    /\ \E n \in 1..Len(buckets) :
         IndexBuckets(buckets).indices[n] = 2 ^ table_cfgs[Len(tables) + 1][3]

(* C3: final-level homogeneity is validated. When a retained bucket of the last
   level holds two different width classes, emit_module's conversion of the last
   table ends the run with TypeError: the table keeps its bucket positions and no
   byte array is written for it. *)
C3_Step ==
    (pc = "emit" /\ \E b \in Range(tables[Len(tables)].indexed) : Mixed(b)) =>
        /\ pc' = "failed"
        /\ err' = "TypeError"
        /\ tables' = tables
        /\ Len(byte_arrays') = Len(tables) - 1

C3_Validated == [][C3_Step]_vars

(* the conversion has failed on a last level above bit 0 *)
C3_Witness ==
    /\ err = "TypeError"
    /\ tables[Len(tables)].low_bit > 0
    /\ \E b \in Range(tables[Len(tables)].indexed) : Mixed(b)

(* C4, as claimed: for every table (its indices are below 2^w) byte_array
   returns bytes in 0..255 from which every index is read back at byte n div k,
   bit offset w * (n mod k). *)
C4_Original ==
    \A i \in 1..Len(tables) :
        LET t == tables[i]
            r == ByteArray(t)
        IN  /\ r.ok
            /\ \A b \in 1..Len(r.bytes) : r.bytes[b] \in 0..255
            /\ \A n \in 0..(Len(t.indices) - 1) :
                  Unpack(r.bytes, n, t.offset_type) = t.indices[n + 1]

(* C5, as claimed: when the number of indices is not a multiple of k, byte_array
   returns ceil(count / k) bytes and the run does not fail on it. *)
C5_Original ==
    /\ err # "IndexError"
    /\ \A i \in 1..Len(tables) :
        LET t == tables[i]
            k == 8 \div t.offset_type
            r == ByteArray(t)
        IN  Len(t.indices) % k # 0 =>
                r.ok /\ Len(r.bytes) = (Len(t.indices) + k - 1) \div k

(* C6: dedup fixed point. After every iteration of the dedup loop over the raw
   buckets of a level no two retained buckets are prefix-compatible, and
   index_buckets on the retained list returns the indices 0..n-1 and the same
   n buckets. *)
C6_FixedPoint ==
    /\ \A p \in 0..Len(buckets) : NoTwoCompatible(IndexUpTo(buckets, p).indexed)
    /\ LET st == IndexBuckets(buckets)
           again == IndexBuckets(st.indexed)
       IN  /\ again.indices = [n \in 1..Len(st.indexed) |-> n - 1]
           /\ again.indexed = st.indexed
    /\ LatestKept => tables[Len(tables)].indexed = IndexBuckets(buckets).indexed

(* a level whose dedup lengthened a retained bucket in place and kept another *)
C6_Witness ==
    /\ LatestKept
    /\ Len(tables[Len(tables)].indexed) >= 2
    /\ \E p \in 1..Len(buckets) :
         LET before == IndexUpTo(buckets, p - 1)
             after == IndexUpTo(buckets, p)
         IN  /\ Len(after.indexed) = Len(before.indexed)
             /\ \E i \in 1..Len(before.indexed) :
                  Len(after.indexed[i].widths) > Len(before.indexed[i].widths)
                  /\ Len(before.indexed[i].widths) > 0

(* C7, as claimed: whenever the class array has two equal adjacent classes, the
   byte arrays of all levels together are smaller than the array. *)
C7_Original ==
    (pc \in {"emit", "done"} /\ HasRun(width_map)) => total_size < Len(width_map)

(* C7, amended: the size depends on the retained bucket counts alone: level i
   takes (groups * 2^num_bits) / (8 / offset_type) bytes, where groups is 1 for
   the first level and the previous level's retained bucket count after it. *)
C7_Size ==
    pc \in {"emit", "done"} => total_size = LevelBytes(Len(tables))

(* sizes reported for a two-level build with packed offsets whose total is not
   below the length of an array that has a run *)
C7_Witness ==
    /\ pc \in {"emit", "done"}
    /\ Len(tables) >= 2
    /\ \E i \in 1..Len(tables) : tables[i].offset_type # U8
    /\ HasRun(width_map)
    /\ total_size >= Len(width_map)

(* C10: first-fit indexing. A level has one index per raw bucket, groups *
   2^num_bits of them, raw bucket j holding the entries of group j div
   2^num_bits whose key is j mod 2^num_bits; every index is a position of the
   retained list, the smallest whose bucket was prefix-compatible with the raw
   bucket when it was processed, or the retained count at that moment; equal
   raw width sequences get equal indices, and positions are handed out densely
   from 0. *)
C10_FirstFit ==
    LatestKept =>
        LET lvl == Len(tables)
            t == tables[lvl]
            m == 2 ^ t.num_bits
        IN  /\ Len(t.indices) = GroupsOf(lvl) * m
            /\ Len(buckets) = Len(t.indices)
            /\ \A j \in 1..Len(buckets) : \A e \in buckets[j].entry_set :
                  /\ LowBits(Shr(e[1], t.low_bit), t.num_bits) = (j - 1) % m
                  /\ lvl > 1 => e \in tables[lvl - 1].indexed[((j - 1) \div m) + 1].entry_set
            /\ \A p \in 1..Len(buckets) :
                  LET before == IndexUpTo(buckets, p - 1).indexed
                      fits == {i \in 1..Len(before) : PrefixCompatible(before[i], buckets[p])}
                  IN  /\ t.indices[p] < Len(t.indexed)
                      /\ t.indices[p] = IF fits = {} THEN Len(before)
                                        ELSE (CHOOSE i \in fits : \A x \in fits : i <= x) - 1
            /\ \A p, q \in 1..Len(buckets) :
                  buckets[p].widths = buckets[q].widths => t.indices[p] = t.indices[q]
            /\ Range(t.indices) = 0..(Len(t.indexed) - 1)

(* a level of at least two groups where a raw bucket skipped an incompatible
   retained bucket and merged into a later one *)
C10_Witness ==
    /\ LatestKept
    /\ Len(tables) >= 2
    /\ GroupsOf(Len(tables)) >= 2
    /\ \E p \in 1..Len(buckets) :
         LET before == IndexUpTo(buckets, p - 1).indexed
         IN  /\ tables[Len(tables)].indices[p] >= 1
             /\ tables[Len(tables)].indices[p] < Len(before)

(* the class the merge of __main__ is to give codepoint c *)
Resolved(c) ==
    IF c = SOFT_HYPHEN THEN NARROW
    ELSE IF c \in JAMO_FIRST..JAMO_LAST THEN ZERO
    ELSE IF zw_map[c + 1] THEN ZERO
    ELSE eaw_map[c + 1]

(* the result lookup_width is to give for a stored class *)
Flagged(class, is_cjk) ==
    IF class = AMBIGUOUS THEN (IF is_cjk THEN WIDE ELSE NARROW) ELSE class

(* C8: ambiguous resolution in lookup_width. On the byte arrays emit_module
   has written, lookup_width of every codepoint whose stored class (the value
   the last table holds for it) is AMBIGUOUS is 2 with is_cjk and 1 without,
   and of every other codepoint is the stored class with either flag; every
   call made returns that value. *)
C8_Step ==
    (pc = "emit" /\ pc' = "done") =>
        \A c \in 0..(Len(width_map) - 1) :
            LET stored == Decode(tables', c)
            IN  /\ LookupWidth(byte_arrays', c, TRUE)
                      = (IF stored = AMBIGUOUS THEN 2 ELSE stored)
                /\ LookupWidth(byte_arrays', c, FALSE)
                      = (IF stored = AMBIGUOUS THEN 1 ELSE stored)

C8_Calls ==
    \A r \in Range(looked) : r.width = Flagged(Decode(tables, r.c), r.is_cjk)

C8_AmbiguousResolution == [](C8_Calls) /\ [][C8_Step]_vars

(* lookup_width was called with is_cjk on a codepoint stored as AMBIGUOUS, and
   the array holds a WIDE and a ZERO codepoint too *)
C8_Witness ==
    /\ pc = "done"
    /\ \E r \in Range(looked) :
          r.is_cjk /\ Decode(tables, r.c) = AMBIGUOUS /\ r.width = WIDE
    /\ \E c \in Probes : Decode(tables, c) = WIDE
    /\ \E c \in Probes : Decode(tables, c) = ZERO

(* C9: resolution order and override propagation. The array __main__ hands to
   make_tables has class NARROW at U+00AD, ZERO on U+1160..U+11FF, elsewhere
   ZERO where zw_map is set and the class of eaw_map where it is not; the
   tables built from it decode every codepoint to that class, and every call
   of lookup_width returns it, AMBIGUOUS resolved by the flag. *)
C9_Step ==
    /\ pc = "main" =>
          /\ Len(width_map') = Len(eaw_map)
          /\ \A c \in 0..(Len(eaw_map) - 1) : width_map'[c + 1] = Resolved(c)
    /\ (pc = "emit" /\ pc' = "done") =>
          \A c \in 0..(Len(eaw_map) - 1) : Decode(tables', c) = Resolved(c)

C9_Calls ==
    \A r \in Range(looked) : r.width = Flagged(Resolved(r.c), r.is_cjk)

C9_ResolutionOrder == [](C9_Calls) /\ [][C9_Step]_vars

(* U+00AD is flagged zero-width and its East Asian class is not NARROW, some
   codepoint of the Jamo block is neither flagged nor ZERO by its East Asian
   class, and lookup_width of U+00AD has returned 1 *)
C9_Witness ==
    /\ pc = "done"
    /\ zw_map[SOFT_HYPHEN + 1]
    /\ eaw_map[SOFT_HYPHEN + 1] # NARROW
    /\ ~zw_map[JAMO_LAST + 1]
    /\ eaw_map[JAMO_LAST + 1] # ZERO
    /\ \E r \in Range(looked) : r.c = SOFT_HYPHEN /\ r.width = NARROW

====
